---- MODULE Spec2Model ----
(***************************************************************************)
(* TrailerTech: the folder classifier (media/movieFolder.py) and the       *)
(* trailer acquisition orchestrator and library dispatcher                 *)
(* (TrailerTech.py).                                                       *)
(*                                                                         *)
(* Python values: a str is a tuple of one-character strings, None is the   *)
(* empty tuple (ElementTree gives None, never '', for an empty text), an   *)
(* optional object is <<>> or <<obj>>.                                     *)
(***************************************************************************)
EXTENDS Integers, Sequences, FiniteSets, TLC

\* ------------------------------------------------------------- bounds
MaxFolders == 2
MaxLinks == 2
MaxEntries == 3
MaxItems == 3

\* ---------------------------------------------------------- constants
MIN_MOVIE_DURATION == 600
VIDEO_EXTENSIONS == {".mkv", ".iso", ".wmv", ".avi", ".mp4", ".m4v", ".img", ".divx", ".mov", ".flv", ".m2ts"}
NFO_EXTENSIONS == {".nfo", ".xml"}
ID_TAGS == {"imdb", "tmdb", "imdbid", "tmdbid", "tmdb_id", "imdb_id", "id"}

None == <<>>
Truthy(v) == v # None

Digits == {"0", "1", "2", "3", "4", "5", "6", "7", "8", "9"}
IsDigitStr(s) == Len(s) > 0 /\ \A i \in 1..Len(s) : s[i] \in Digits

\* str.lower() on the characters the model's inputs use
LowerChar(c) == CASE c = "T" -> "t" [] c = "E" -> "e" [] c = "V" -> "v" [] OTHER -> c
LowerStr(s) == [i \in 1..Len(s) |-> LowerChar(s[i])]

\* tag.lower() / attrib['type'].lower() on the spellings the model's inputs use
LowerTag(t) ==
  CASE t = "UniqueID" -> "uniqueid"
    [] t = "Title" -> "title"
    [] t = "IMDB" -> "imdb"
    [] t = "TMDB" -> "tmdb"
    [] t = "Year" -> "year"
    [] OTHER -> t

\* re.match(YEAR_PATTERN, s): \d{4} anchored at the start only
MatchYear(s) == Len(s) >= 4 /\ \A i \in 1..4 : s[i] \in Digits

\* re.match(TMDB_ID_PATTERN, s): [1-9]\d{1,10} anchored at the start only
MatchTmdb(s) == Len(s) >= 2 /\ s[1] \in (Digits \ {"0"}) /\ s[2] \in Digits

\* number of leading digits of s from position p (at most n)
RECURSIVE DigitRun(_, _, _)
DigitRun(s, p, n) ==
  IF n = 0 \/ p > Len(s) \/ s[p] \notin Digits THEN 0 ELSE 1 + DigitRun(s, p + 1, n - 1)

\* re.match(IMDB_ID_PATTERN, s): ev\d{7,8}\/\d{4}(-\d)?|(ch|co|ev|nm|tt)\d{7,8}
MatchImdb(s) ==
  LET run == DigitRun(s, 3, 8)
      evForm(k) == /\ Len(s) >= 2 + k + 5
                   /\ s[2 + k + 1] = "/"
                   /\ DigitRun(s, 2 + k + 2, 4) = 4
  IN  /\ Len(s) >= 2
      /\ \/ /\ <<s[1], s[2]>> = <<"e", "v">>
            /\ \/ (run >= 8 /\ evForm(8))
               \/ (run >= 7 /\ evForm(7))
         \/ /\ <<s[1], s[2]>> \in {<<"c", "h">>, <<"c", "o">>, <<"e", "v">>, <<"n", "m">>, <<"t", "t">>}
            /\ run >= 7

\* ------------------------------------------------------------ NFO
\* str(datetime.strptime(releaseDate, '%Y-%m-%d').year): the module never
\* imports datetime, so the call raises NameError, which the bare except
\* turns into None.
StrptimeYear(releaseDate) == None

\* NFO.__parse_releaseDate
parse_releaseDate(releaseDate) ==
  IF Truthy(releaseDate)
  THEN IF Len(releaseDate) = 4 /\ IsDigitStr(releaseDate)
       THEN releaseDate
       ELSE StrptimeYear(releaseDate)
  ELSE None

\* NFO.__init__ before __parse_nfo
NFOInit(size) ==
  [fileSize |-> size,
   originaltitle |-> None, title |-> None, localtitle |-> None,
   year |-> None, releasedate |-> None, premiered |-> None, productionyear |-> None,
   imdb |-> None, tmdb |-> None,
   unique_id_imdb |-> None, unique_id_tmdb |-> None, id |-> None]

\* NFO.__parse_id
parse_id(n, movie_id) ==
  IF Truthy(movie_id)
  THEN IF Len(movie_id) >= 2 /\ SubSeq(LowerStr(movie_id), 1, 2) = <<"t", "t">>
       THEN [n EXCEPT !.imdb = movie_id]
       ELSE IF IsDigitStr(movie_id)
            THEN [n EXCEPT !.tmdb = movie_id]
            ELSE n
  ELSE n

\* one iteration of the loop of NFO.__parse_nfo; item = [tag, hasType, type, text]
ParseItemRaises(item) == LowerTag(item.tag) = "uniqueid" /\ ~item.hasType

ParseItem(n, item) ==
  LET tag == LowerTag(item.tag) IN
  IF tag = "uniqueid"
  THEN IF LowerTag(item.type) = "tmdb" THEN [n EXCEPT !.unique_id_tmdb = item.text]
       ELSE IF LowerTag(item.type) = "imdb" THEN [n EXCEPT !.unique_id_imdb = item.text]
       ELSE n
  ELSE IF tag \in ID_TAGS THEN parse_id(n, item.text)
  ELSE IF tag = "premiered" THEN [n EXCEPT !.premiered = parse_releaseDate(item.text)]
  ELSE IF tag = "release_date" THEN [n EXCEPT !.releasedate = parse_releaseDate(item.text)]
  ELSE IF tag = "year" THEN [n EXCEPT !.year = item.text]
  ELSE IF tag = "productionyear" THEN [n EXCEPT !.productionyear = item.text]
  ELSE IF tag = "title" THEN [n EXCEPT !.title = item.text]
  ELSE IF tag = "originaltitle" THEN [n EXCEPT !.originaltitle = item.text]
  ELSE IF tag = "localtitle" THEN [n EXCEPT !.localtitle = item.text]
  ELSE n

\* NFO.__parse_nfo over the root's children from position i; the result is
\* [exc, nfo]: exc = "KeyError" when item.attrib['type'] is missing.
RECURSIVE ParseItems(_, _, _)
ParseItems(n, items, i) ==
  IF i > Len(items) THEN [exc |-> "", nfo |-> n]
  ELSE IF ParseItemRaises(items[i]) THEN [exc |-> "KeyError", nfo |-> n]
  ELSE ParseItems(ParseItem(n, items[i]), items, i + 1)

\* NFO(path): file = [size, wellFormed, items]
NFO(file) ==
  IF ~file.wellFormed
  THEN [exc |-> "", nfo |-> NFOInit(file.size)]
  ELSE ParseItems(NFOInit(file.size), file.items, 1)

\* NFO.title
NFO_title(n) ==
  IF Truthy(n.originaltitle) THEN n.originaltitle
  ELSE IF Truthy(n.title) THEN n.title
  ELSE IF Truthy(n.localtitle) THEN n.localtitle
  ELSE None

\* NFO.year raises TypeError at line 114: the bound method
\* self.__parse_releaseDate is passed to itself and len() of it fails.
NFO_yearRaises(n) ==
  /\ ~(Truthy(n.premiered) /\ Truthy(parse_releaseDate(n.premiered))
         /\ MatchYear(parse_releaseDate(n.premiered)))
  /\ Truthy(n.releasedate)

\* NFO.year when it does not raise
NFO_year(n) ==
  IF Truthy(n.premiered) /\ Truthy(parse_releaseDate(n.premiered))
       /\ MatchYear(parse_releaseDate(n.premiered))
  THEN parse_releaseDate(n.premiered)
  ELSE IF Truthy(n.year) /\ MatchYear(n.year) THEN n.year
  ELSE IF Truthy(n.productionyear) /\ MatchYear(n.productionyear) THEN n.productionyear
  ELSE None

NFO_imdb_unchecked(n) ==
  IF Truthy(n.unique_id_imdb) THEN n.unique_id_imdb
  ELSE IF Truthy(n.imdb) /\ MatchImdb(n.imdb) THEN n.imdb
  ELSE IF Truthy(n.id) /\ MatchImdb(n.id) THEN n.id
  ELSE None

\* NFO.imdb
NFO_imdb(n) ==
  IF Truthy(n.unique_id_imdb) /\ MatchImdb(n.unique_id_imdb) THEN n.unique_id_imdb
  ELSE IF Truthy(n.imdb) /\ MatchImdb(n.imdb) THEN n.imdb
  ELSE IF Truthy(n.id) /\ MatchImdb(n.id) THEN n.id
  ELSE None

\* NFO.tmdb
NFO_tmdb(n) ==
  IF Truthy(n.unique_id_tmdb) /\ MatchTmdb(n.unique_id_tmdb) THEN n.unique_id_tmdb
  ELSE IF Truthy(n.tmdb) /\ MatchTmdb(n.tmdb) THEN n.tmdb
  ELSE IF Truthy(n.id) /\ MatchTmdb(n.id) THEN n.id
  ELSE None

\* NFO.is_complete: year is only evaluated when no id is valid and title is truthy
is_completeRaises(n) ==
  /\ ~(Truthy(NFO_imdb(n)) \/ Truthy(NFO_tmdb(n)))
  /\ Truthy(NFO_title(n))
  /\ NFO_yearRaises(n)

is_complete(n) ==
  IF Truthy(NFO_imdb(n)) \/ Truthy(NFO_tmdb(n)) THEN TRUE
  ELSE IF Truthy(NFO_title(n)) /\ Truthy(NFO_year(n)) THEN TRUE
  ELSE FALSE

\* ------------------------------------------------------------ Video
\* os.path.splitext(self.fileName)[0].endswith('-trailer'); a stem is a tuple
\* of name segments
EndsWithTrailer(stem) == Len(stem) > 0 /\ stem[Len(stem)] = "-trailer"

\* Video.get_duration: float(result.stdout), or the fallback on ValueError
get_duration(e) ==
  IF e.probeOk THEN e.duration
  ELSE IF EndsWithTrailer(e.stem) THEN 1 ELSE MIN_MOVIE_DURATION + 1

\* Video.__init__
Video(e, dir, skip_processing, is_trailer) ==
  [stem |-> e.stem, ext |-> e.ext, dir |-> dir,
   duration |-> IF skip_processing
                THEN IF is_trailer THEN MIN_MOVIE_DURATION - 1 ELSE MIN_MOVIE_DURATION + 1
                ELSE get_duration(e)]

isMovie_above(v) == v.duration > MIN_MOVIE_DURATION

\* Video.isMovie
isMovie(v) == v.duration >= MIN_MOVIE_DURATION

\* ------------------------------------------------------- MovieFolder
\* MovieFolder.__init__ before scan(); probed logs the paths handed to ffprobe
FolderInit == [exc |-> "", movie |-> None, trailer |-> None, nfo |-> None, probed |-> <<>>]

hasTrailer_inverted(f) == f.trailer = None
hasMovie_orTrailer(f) == ~(f.movie = None) \/ ~(f.trailer = None)

\* MovieFolder.hasTrailer / hasMovie
hasTrailer(f) == ~(f.trailer = None)
hasMovie(f) == ~(f.movie = None)

\* MovieFolder.trailerName / trailerDirectory (None when there is no movie)
trailerName(f) == IF hasMovie(f) THEN f.movie[1].stem \o <<"-trailer", ".mp4">> ELSE None
trailerDirectory(f) == IF hasMovie(f) THEN <<f.movie[1].dir>> ELSE None

KeepNfo_bySizeOnly(f, n) ==
  \/ (is_complete(n) /\ f.nfo = None)
  \/ (f.nfo # None /\ n.fileSize > f.nfo[1].fileSize)

\* the test of line 249 that decides whether the new record is kept
KeepNfo(f, n) ==
  \/ (is_complete(n) /\ f.nfo = None)
  \/ (is_complete(n) /\ n.fileSize > f.nfo[1].fileSize)

\* lines 237-251: a regular file
ScanFile(f, e) ==
  IF e.ext \in VIDEO_EXTENSIONS
  THEN LET video == Video(e, ".", FALSE, FALSE)
           g == [f EXCEPT !.probed = Append(@, e.stem)]
       IN  IF isMovie(video) THEN [g EXCEPT !.movie = <<video>>]
           ELSE [g EXCEPT !.trailer = <<video>>]
  ELSE IF e.ext \in NFO_EXTENSIONS
  THEN LET r == NFO(e) IN
       IF r.exc # "" THEN [f EXCEPT !.exc = r.exc]
       ELSE IF is_completeRaises(r.nfo) THEN [f EXCEPT !.exc = "TypeError"]
       ELSE IF KeepNfo(f, r.nfo) THEN [f EXCEPT !.nfo = <<r.nfo>>]
       ELSE f
  ELSE f

\* lines 264-269 / 280-285: the trailer search among the children of a disc
\* folder, from position i; marker is 'index-trailer' or 'video_ts-trailer'
RECURSIVE ScanDiscChildren(_, _, _, _, _)
ScanDiscChildren(f, dirName, children, marker, i) ==
  IF i > Len(children) THEN f
  ELSE LET c == children[i] IN
       IF marker \in c.nameHas
       THEN LET video == Video(c, dirName, FALSE, FALSE)
                g == [f EXCEPT !.probed = Append(@, c.stem)]
            IN  ScanDiscChildren(IF ~isMovie(video) THEN [g EXCEPT !.trailer = <<video>>] ELSE g,
                                 dirName, children, marker, i + 1)
       ELSE ScanDiscChildren(f, dirName, children, marker, i + 1)

\* lines 253-285: a directory; e.pathHas are the markers found in item.path.lower()
ScanDir(f, e) ==
  IF "bdmv" \in e.pathHas
  THEN IF e.hasIndexBdmv
       THEN LET video == Video([stem |-> <<"index">>, ext |-> ".bdmv"], e.name, TRUE, FALSE)
            IN  ScanDiscChildren([f EXCEPT !.movie = <<video>>], e.name, e.children, "index-trailer", 1)
       ELSE f
  ELSE IF "video_ts" \in e.pathHas
  THEN IF e.hasVideoTsIfo
       THEN LET video == Video([stem |-> <<"VIDEO_TS">>, ext |-> ".IFO"], e.name, TRUE, FALSE)
            IN  ScanDiscChildren([f EXCEPT !.movie = <<video>>], e.name, e.children, "video_ts-trailer", 1)
       ELSE f
  ELSE f

\* one iteration of the loop of MovieFolder.scan
ScanItem(f, e) ==
  IF e.kind = "file" THEN ScanFile(f, e)
  ELSE IF e.kind = "dir" THEN ScanDir(f, e)
  ELSE f

\* MovieFolder(directory): scan() over the listing from position i; an
\* exception raised by an item ends the loop and leaves the constructor
RECURSIVE ScanFrom(_, _, _)
ScanFrom(f, listing, i) ==
  IF i > Len(listing) \/ f.exc # "" THEN f
  ELSE ScanFrom(ScanItem(f, listing[i]), listing, i + 1)

MovieFolder(listing) == ScanFrom(FolderInit, listing, 1)

\* ----------------------------------------------------- sample inputs
S_tt == <<"t", "t", "0", "1", "2", "3", "4", "5", "6">>
S_num == <<"6", "0", "3">>
S_1999 == <<"1", "9", "9", "9">>
S_2010 == <<"2", "0", "1", "0">>
S_date == <<"2", "0", "1", "0", "-", "0", "5", "-", "1", "2">>
S_Heat == <<"H", "e", "a", "t">>

S_2005 == <<"2", "0", "0", "5">>
S_1987 == <<"1", "9", "8", "7">>
S_19xx == <<"1", "9", "x", "x">>
S_other == <<"n", "/", "a">>
S_ttShort == <<"t", "t", "1", "2">>
S_tt2 == <<"t", "t", "7", "6", "5", "4", "3", "2", "1">>
S_nm == <<"n", "m", "0", "0", "0", "0", "1", "2", "3">>
S_7 == <<"7">>

Tag(tag, text) == [tag |-> tag, hasType |-> FALSE, type |-> "", text |-> text]
UniqueId(type, text) == [tag |-> "uniqueid", hasType |-> TRUE, type |-> type, text |-> text]

VideoFile(stem, ext, probeOk, duration) ==
  [kind |-> "file", stem |-> stem, ext |-> ext, probeOk |-> probeOk, duration |-> duration]
NfoFile(stem, ext, size, wellFormed, items) ==
  [kind |-> "file", stem |-> stem, ext |-> ext, size |-> size, wellFormed |-> wellFormed, items |-> items]

E_movie == VideoFile(<<"movie">>, ".mkv", TRUE, 1800)
E_trailer == VideoFile(<<"movie", "-trailer">>, ".mp4", TRUE, 120)
E_nfoId == NfoFile(<<"movie">>, ".nfo", 20, TRUE, <<UniqueId("imdb", S_tt), Tag("title", S_Heat), Tag("year", S_1999)>>)
\* an id and a 4-digit release_date: complete, but its year accessor raises
E_nfoIdRel == NfoFile(<<"movie", "-rel">>, ".xml", 25, TRUE, <<Tag("tmdb", S_num), Tag("release_date", S_2010)>>)
\* complete by title and year only, small
E_nfoSmall == NfoFile(<<"small">>, ".nfo", 10, TRUE, <<Tag("Title", S_Heat), Tag("year", S_1999)>>)
\* complete, of the same size as E_nfoId
E_nfoTie == NfoFile(<<"tie">>, ".xml", 20, TRUE, <<Tag("tmdbid", S_num)>>)
\* incomplete (a title, no year, no id), large
E_nfoBig == NfoFile(<<"big">>, ".nfo", 30, TRUE, <<Tag("title", S_Heat), Tag("plot", S_Heat)>>)
\* not well-formed XML, larger still
E_nfoBad == NfoFile(<<"bad">>, ".nfo", 40, FALSE, <<>>)
\* a title and a 4-digit release_date, no id: is_complete raises TypeError
E_nfoTitleRel == NfoFile(<<"rel">>, ".nfo", 15, TRUE, <<Tag("title", S_Heat), Tag("release_date", S_2010)>>)
\* a uniqueid element without a type attribute: the parse raises KeyError
E_nfoNoType == NfoFile(<<"notype">>, ".nfo", 15, TRUE, <<Tag("uniqueid", S_tt)>>)

\* a second movie, exactly at the threshold
E_movie600 == VideoFile(<<"feature">>, ".avi", TRUE, 600)
\* a clip just under the threshold, without the trailer naming convention
E_clip599 == VideoFile(<<"extras">>, ".m4v", TRUE, 599)
\* ffprobe prints nothing usable; the name carries the trailer convention
E_probeFailTrailer == VideoFile(<<"clip", "-trailer">>, ".mov", FALSE, 0)
\* not a recognised extension
E_txt == [kind |-> "file", stem |-> <<"readme">>, ext |-> ".txt"]
DiscChild(nameHas, stem, ext, probeOk, duration) ==
  [nameHas |-> nameHas, stem |-> stem, ext |-> ext, probeOk |-> probeOk, duration |-> duration]
\* a BluRay folder: index.bdmv and an index-trailer entry of 90 s
E_bdmv ==
  [kind |-> "dir", name |-> "BDMV", pathHas |-> {"bdmv"},
   hasIndexBdmv |-> TRUE, hasVideoTsIfo |-> FALSE,
   children |-> <<DiscChild({}, <<"index">>, ".bdmv", FALSE, 0),
                  DiscChild({"index-trailer"}, <<"index", "-trailer">>, ".mp4", TRUE, 90)>>]
\* a DVD folder: VIDEO_TS.IFO and a video_ts-trailer entry that is movie-length
E_videoTs ==
  [kind |-> "dir", name |-> "VIDEO_TS", pathHas |-> {"video_ts"},
   hasIndexBdmv |-> FALSE, hasVideoTsIfo |-> TRUE,
   children |-> <<DiscChild({"video_ts-trailer"}, <<"video_ts", "-trailer">>, ".vob", TRUE, 700)>>]

\* a DVD folder below a directory whose name holds "bdmv": item.path has both
\* markers, VIDEO_TS.IFO is there, index.bdmv is not
E_dvdUnderBdmv ==
  [kind |-> "dir", name |-> "VIDEO_TS", pathHas |-> {"bdmv", "video_ts"},
   hasIndexBdmv |-> FALSE, hasVideoTsIfo |-> TRUE,
   children |-> <<DiscChild({"video_ts-trailer"}, <<"video_ts", "-trailer">>, ".vob", TRUE, 80)>>]

\* the entries MovieFolder.scan is run over, in every order, without repetition
ScanPool ==
  { E_movie, E_trailer, E_movie600, E_clip599, E_probeFailTrailer, E_txt,
    E_nfoId, E_nfoSmall, E_nfoTie, E_nfoBig, E_nfoBad, E_nfoTitleRel, E_nfoNoType,
    E_bdmv, E_videoTs, E_dvdUnderBdmv }
ScanListings ==
  { l \in UNION { [1..n -> ScanPool] : n \in 0..MaxEntries } :
      \A i, j \in 1..Len(l) : i # j => l[i] # l[j] }

\* ---------------------------------------------------------- the program
VARIABLES
  mode,                \* which branch of main() the arguments and environment select
  rootValid,           \* os.path.isdir(libraryDir)
  lib,                 \* the entries under the library root (or the one directory
                       \* argument); not constrained by rootValid, so that a scan which
                       \* went on past a failed root test would have entries to visit
  ov,                  \* the overrides handed to get_Trailer
  directoriesScanned, trailersDownloaded, trailersFound,
  task,                \* one get_Trailer invocation per entry of lib
  mainPc,              \* position of the main thread
  cur,                 \* loop position of scanLibrary
  cleanUps,            \* calls of downloader.cleanUp()
  report,              \* what printStats printed: <<>> or <<[scanned, downloaded, missing]>>
  scanIn, scanPos, scanSt,  \* MovieFolder.scan run step by step over one listing
  nfoIn, nfoPos, nfoSt,     \* NFO(path) run step by step over one sidecar file
  nfoOut                    \* what the accessors of the finished record returned

vars == <<mode, rootValid, lib, ov, directoriesScanned, trailersDownloaded, trailersFound,
          task, mainPc, cur, cleanUps, report, scanIn, scanPos, scanSt,
          nfoIn, nfoPos, nfoSt, nfoOut>>
scanVars == <<scanIn, scanPos, scanSt>>
nfoVars == <<nfoIn, nfoPos, nfoSt, nfoOut>>
counters == <<directoriesScanned, trailersDownloaded, trailersFound>>
inputs == <<mode, rootValid, lib, ov>>

\* the locals of a get_Trailer invocation that has not started (or has returned);
\* at0 are the counters when it was entered, incs counts the += 1 statements
\* it has completed on <<directoriesScanned, trailersDownloaded, trailersFound>>
TaskInit ==
  [pc |-> "idle", returned |-> FALSE, exc |-> "", folder |-> FolderInit, tmp |-> 0,
   tmdbCall |-> None, appleCall |-> None, linksCalls |-> 0,
   appleLinks |-> <<>>, ytLinks |-> <<>>, idx |-> 0, attempts |-> <<>>,
   at0 |-> <<0, 0, 0>>, incs |-> <<0, 0, 0>>]

Terminal == {"SkippedInvalidPath", "SkippedNoMovie", "AlreadyPresent", "Downloaded", "NotFound", "Raised"}

\* the file system: what os.scandir lists for each path the runs are given
Paths == {"trailerOnly", "movieOnly", "movieTrailer", "movieNfo"}
SinglePaths == Paths \cup {"empty", "movieNfoRel", "movieNfoBig", "nfoNoType"}
ListingOf(path) ==
  CASE path = "trailerOnly" -> <<E_trailer>>
    [] path = "movieOnly" -> <<E_movie>>
    [] path = "movieTrailer" -> <<E_movie, E_trailer>>
    [] path = "movieNfo" -> <<E_nfoId, E_movie>>
    [] path = "movieNfoRel" -> <<E_movie, E_nfoIdRel>>
    [] path = "movieNfoBig" -> <<E_nfoBig, E_movie>>
    [] path = "nfoNoType" -> <<E_movie, E_nfoNoType>>
    [] OTHER -> <<>>
NotADirectory == [isDir |-> FALSE, path |-> "notADirectory"]
LibItems == [isDir : {TRUE}, path : Paths] \cup {NotADirectory}
SingleItems == [isDir : {TRUE}, path : SinglePaths] \cup {NotADirectory}
Libraries == UNION { [1..n -> LibItems] : n \in 0..MaxFolders }
\* under scanLibraryThreaded every subdirectory is submitted at once and the
\* listing order plays no part afterwards: the threaded runs take one listing
\* per multiset of entries, with at most one folder whose invocation goes
\* through the download loops
PathRank(path) ==
  CASE path = "notADirectory" -> 0
    [] path = "trailerOnly" -> 1
    [] path = "movieOnly" -> 2
    [] path = "movieTrailer" -> 3
    [] OTHER -> 4
ThreadedLibraries ==
  { l \in Libraries :
      \A i \in 1..(Len(l) - 1) :
        /\ PathRank(l[i].path) <= PathRank(l[i + 1].path)
        /\ l[i].path = "movieNfo" => l[i + 1].path # "movieNfo" }

NoOverrides == [tmdbid |-> None, imdbid |-> None, title |-> None, year |-> None]
Overrides ==
  [tmdbid : {None, S_num}, imdbid : {None, S_tt}, title : {None, S_Heat}, year : {None, S_1999}]

\* the candidate links a collaborator returns: a list of n opaque tokens; the
\* two collaborators return at most MaxLinks links together
Links(src, n) == [k \in 1..n |-> [src |-> src, n |-> k]]

InitScanOff == scanIn = <<>> /\ scanPos = 0 /\ scanSt = FolderInit
InitNfoOff == nfoIn = <<>> /\ nfoPos = 0 /\ nfoSt = <<>> /\ nfoOut = <<>>

Init ==
  /\ mode \in {"single", "radarr", "recursive", "threaded", "test", "unsupported", "none"}
  /\ rootValid \in BOOLEAN
  /\ IF mode \in {"single", "radarr"}
     THEN lib \in [1..1 -> SingleItems] /\ ov \in Overrides /\ rootValid = TRUE
     ELSE IF mode = "recursive"
     THEN ov = NoOverrides /\ lib \in Libraries
     ELSE IF mode = "threaded"
     THEN ov = NoOverrides /\ lib \in ThreadedLibraries
     ELSE ov = NoOverrides /\ lib = <<>> /\ rootValid = TRUE
  /\ directoriesScanned = 0 /\ trailersDownloaded = 0 /\ trailersFound = 0
  /\ task = [i \in 1..Len(lib) |-> TaskInit]
  /\ mainPc = "start"
  /\ cur = 0
  /\ cleanUps = 0
  /\ report = <<>>
  /\ InitScanOff
  /\ InitNfoOff

\* ------------------------------------------------ TrailerTech.get_Trailer
\* lines 41-48: the isdir test, folder = MovieFolder(movieDir), the hasMovie test
GT_Classify(i) ==
  /\ task[i].pc = "validate"
  /\ IF ~lib[i].isDir
     THEN task' = [task EXCEPT ![i].pc = "SkippedInvalidPath"]
     ELSE LET f == MovieFolder(ListingOf(lib[i].path)) IN
          task' = [task EXCEPT ![i].folder = f,
                               ![i].exc = f.exc,
                               ![i].pc = IF f.exc # "" THEN "Raised"
                                         ELSE IF ~hasMovie(f) THEN "SkippedNoMovie"
                                         ELSE "scanned_load"]
  /\ UNCHANGED <<inputs, counters, mainPc, cur, cleanUps, report, scanVars, nfoVars>>

\* line 50, self.directoriesScanned += 1: the read of the attribute ...
GT_LoadScanned(i) ==
  /\ task[i].pc = "scanned_load"
  /\ task' = [task EXCEPT ![i].tmp = directoriesScanned, ![i].pc = "scanned_store"]
  /\ UNCHANGED <<inputs, counters, mainPc, cur, cleanUps, report, scanVars, nfoVars>>

\* ... and the write of the sum, then the test of line 52
GT_StoreScanned(i) ==
  /\ task[i].pc = "scanned_store"
  /\ directoriesScanned' = task[i].tmp + 1
  /\ task' = [task EXCEPT ![i].pc = IF hasTrailer(task[i].folder) THEN "found_load" ELSE "resolve",
                          ![i].tmp = 0, ![i].incs[1] = @ + 1]
  /\ UNCHANGED <<inputs, trailersDownloaded, trailersFound, mainPc, cur, cleanUps, report, scanVars, nfoVars>>

\* line 54, self.trailersFound += 1: read ...
GT_LoadFound(i) ==
  /\ task[i].pc = "found_load"
  /\ task' = [task EXCEPT ![i].tmp = trailersFound, ![i].pc = "found_store"]
  /\ UNCHANGED <<inputs, counters, mainPc, cur, cleanUps, report, scanVars, nfoVars>>

\* ... and write, then the return of line 55
GT_StoreFound(i) ==
  /\ task[i].pc = "found_store"
  /\ trailersFound' = task[i].tmp + 1
  /\ task' = [task EXCEPT ![i].pc = "AlreadyPresent", ![i].tmp = 0, ![i].incs[3] = @ + 1]
  /\ UNCHANGED <<inputs, directoriesScanned, trailersDownloaded, mainPc, cur, cleanUps, report, scanVars, nfoVars>>

\* the test of line 58
UseOverrides(o) == (Truthy(o.tmdbid) \/ Truthy(o.imdbid)) \/ (Truthy(o.title) /\ Truthy(o.year))

\* the arguments of lines 59-60 / 62-63
CallArgs(f, o) ==
  IF UseOverrides(o)
  THEN [tmdbid |-> o.tmdbid, imdbid |-> o.imdbid, title |-> o.title, year |-> o.year]
  ELSE [tmdbid |-> NFO_tmdb(f.nfo[1]), imdbid |-> NFO_imdb(f.nfo[1]),
        title |-> NFO_title(f.nfo[1]), year |-> NFO_year(f.nfo[1])]

\* evaluating the arguments of line 62 raises: folder.nfo.tmdb is an
\* AttributeError when folder.nfo is None, folder.nfo.year may be a TypeError
ArgsRaise(f, o) ==
  IF UseOverrides(o) THEN ""
  ELSE IF f.nfo = None THEN "AttributeError"
  ELSE IF NFO_yearRaises(f.nfo[1]) THEN "TypeError"
  ELSE ""

\* lines 58-64: tmdb.get_movie_details(...), appleLinks = apple.getLinks(...),
\* ytLinks = tmdb.get_trailer_links(...); an exception raised while the
\* arguments are evaluated leaves get_Trailer before any collaborator is called
GT_FetchCandidates(i) ==
  /\ task[i].pc = "resolve"
  /\ LET f == task[i].folder IN
     IF ArgsRaise(f, ov) # ""
     THEN task' = [task EXCEPT ![i].exc = ArgsRaise(f, ov), ![i].pc = "Raised"]
     ELSE \E n \in 0..MaxLinks : \E m \in 0..(MaxLinks - n) :
            task' = [task EXCEPT ![i].tmdbCall = <<CallArgs(f, ov)>>,
                                 ![i].appleCall = <<[title |-> CallArgs(f, ov).title,
                                                     year |-> CallArgs(f, ov).year]>>,
                                 ![i].linksCalls = @ + 1,
                                 ![i].appleLinks = Links("apple", n),
                                 ![i].ytLinks = Links("yt", m),
                                 ![i].idx = 1,
                                 ![i].pc = "try"]
  /\ UNCHANGED <<inputs, counters, mainPc, cur, cleanUps, report, scanVars, nfoVars>>

TryOrder_ytFirst(appleLinks, ytLinks) == ytLinks \o appleLinks

\* the order in which the two loops of lines 68-82 visit the links
TryOrder(appleLinks, ytLinks) == appleLinks \o ytLinks

\* lines 68-84: one pass of the loops: the next downloadApple / downloadYouTube
\* call and its result, or the fall through to line 84. attempts records the
\* downloader calls of the loops. Once the loops are left the lists and the loop
\* position are dead (nothing reads them again) and are dropped.
GT_Try(i) ==
  /\ task[i].pc = "try"
  /\ LET order == TryOrder(task[i].appleLinks, task[i].ytLinks) IN
     IF task[i].idx > Len(order)
     THEN task' = [task EXCEPT ![i].pc = "NotFound",
                               ![i].appleLinks = <<>>, ![i].ytLinks = <<>>,
                               ![i].idx = 0, ![i].attempts = <<>>]
     ELSE \E ok \in BOOLEAN :
            LET a == [link |-> order[task[i].idx],
                      name |-> trailerName(task[i].folder),
                      dir |-> trailerDirectory(task[i].folder),
                      ok |-> ok]
            IN  IF ok
                THEN task' = [task EXCEPT ![i].attempts = Append(@, a),
                                          ![i].appleLinks = <<>>, ![i].ytLinks = <<>>,
                                          ![i].idx = 0,
                                          ![i].pc = "dl_load"]
                ELSE task' = [task EXCEPT ![i].attempts = Append(@, a),
                                          ![i].idx = @ + 1]
  /\ UNCHANGED <<inputs, counters, mainPc, cur, cleanUps, report, scanVars, nfoVars>>

\* lines 71 / 79, self.trailersDownloaded += 1: read ...
GT_LoadDownloaded(i) ==
  /\ task[i].pc = "dl_load"
  /\ task' = [task EXCEPT ![i].tmp = trailersDownloaded, ![i].pc = "dl_store",
                          ![i].attempts = <<>>]
  /\ UNCHANGED <<inputs, counters, mainPc, cur, cleanUps, report, scanVars, nfoVars>>

\* ... and write, then the return of line 72 / 80
GT_StoreDownloaded(i) ==
  /\ task[i].pc = "dl_store"
  /\ trailersDownloaded' = task[i].tmp + 1
  /\ task' = [task EXCEPT ![i].pc = "Downloaded", ![i].tmp = 0, ![i].incs[2] = @ + 1]
  /\ UNCHANGED <<inputs, directoriesScanned, trailersFound, mainPc, cur, cleanUps, report, scanVars, nfoVars>>

\* the call self.get_Trailer(...): the frame of invocation i is entered
Invoke(t) == [t EXCEPT !.pc = "validate",
                       !.at0 = <<directoriesScanned, trailersDownloaded, trailersFound>>]

\* get_Trailer returns or raises: its locals are gone, its outcome is kept.
\* An exception leaves scanLibrary and main() uncaught (only KeyboardInterrupt is
\* caught, line 157); in a worker it is stored in a future nobody reads.
GT_Return(i) ==
  /\ task[i].pc \in Terminal
  /\ ~task[i].returned
  /\ task' = [task EXCEPT ![i] = [TaskInit EXCEPT !.pc = task[i].pc, !.exc = task[i].exc,
                                                   !.returned = TRUE]]
  /\ IF mode = "threaded"
     THEN UNCHANGED <<mainPc, cur>>
     ELSE IF task[i].pc = "Raised"
     THEN mainPc' = "crashed" /\ UNCHANGED cur
     ELSE IF mode = "recursive"
     THEN cur' = cur + 1 /\ UNCHANGED mainPc
     ELSE mainPc' = "cleanup" /\ UNCHANGED cur
  /\ UNCHANGED <<inputs, counters, cleanUps, report, scanVars, nfoVars>>

\* ------------------------------------------------------ TrailerTech.main
\* lines 121-124 and 131-133: one get_Trailer call with the caller's overrides
Main_Single ==
  /\ mainPc = "start"
  /\ mode \in {"single", "radarr"}
  /\ task' = [task EXCEPT ![1] = Invoke(@)]
  /\ mainPc' = "call"
  /\ UNCHANGED <<inputs, counters, cur, cleanUps, report, scanVars, nfoVars>>

\* lines 139-149: sys.exit(0) for a test or unsupported event, sys.exit(1) otherwise
Main_Exit ==
  /\ mainPc = "start"
  /\ mode \in {"test", "unsupported", "none"}
  /\ mainPc' = IF mode = "none" THEN "exit1" ELSE "exit0"
  /\ UNCHANGED <<inputs, counters, task, cur, cleanUps, report, scanVars, nfoVars>>

IsValidRoot_always == TRUE

\* os.path.isdir(libraryDir), lines 88 and 100
IsValidRoot == rootValid

\* scanLibrary, lines 87-90: the root test
scanLibrary_Begin ==
  /\ mainPc = "start"
  /\ mode = "recursive"
  /\ IF IsValidRoot THEN mainPc' = "loop" /\ cur' = 1
                  ELSE mainPc' = "cleanup" /\ UNCHANGED cur
  /\ UNCHANGED <<inputs, counters, task, cleanUps, report, scanVars, nfoVars>>

\* scanLibrary, lines 92-96: the next item of os.listdir, or the end of the loop
scanLibrary_Next ==
  /\ mainPc = "loop"
  /\ IF cur > Len(lib)
     THEN mainPc' = "cleanup" /\ UNCHANGED <<task, cur>>
     ELSE /\ task[cur].pc = "idle"
          /\ IF lib[cur].isDir
             THEN task' = [task EXCEPT ![cur] = Invoke(@)] /\ UNCHANGED cur
             ELSE cur' = cur + 1 /\ UNCHANGED task
          /\ UNCHANGED mainPc
  /\ UNCHANGED <<inputs, counters, cleanUps, report, scanVars, nfoVars>>

\* scanLibraryThreaded, line 104: the subdirectories of the root
movieDirs == {i \in 1..Len(lib) : lib[i].isDir}

\* scanLibraryThreaded, lines 99-107: the root test, then executer.map submits
\* one get_Trailer call per element of movieDirs
scanLibraryThreaded_Begin ==
  /\ mainPc = "start"
  /\ mode = "threaded"
  /\ IF IsValidRoot
     THEN /\ task' = [i \in 1..Len(lib) |-> IF i \in movieDirs THEN Invoke(task[i]) ELSE task[i]]
          /\ mainPc' = "join"
     ELSE mainPc' = "cleanup" /\ UNCHANGED task
  /\ UNCHANGED <<inputs, counters, cur, cleanUps, report, scanVars, nfoVars>>

AllJoined_noWait == TRUE

\* the test under which the with block of line 106 is left
AllJoined == \A i \in movieDirs : task[i].returned

\* scanLibraryThreaded, line 106: leaving the with block is shutdown(wait=True)
scanLibraryThreaded_Join ==
  /\ mainPc = "join"
  /\ AllJoined
  /\ mainPc' = "cleanup"
  /\ UNCHANGED <<inputs, counters, task, cur, cleanUps, report, scanVars, nfoVars>>

\* lines 128 / 137: self.downloader.cleanUp()
Main_CleanUp ==
  /\ mainPc = "cleanup"
  /\ cleanUps' = cleanUps + 1
  /\ mainPc' = "stats"
  /\ UNCHANGED <<inputs, counters, task, cur, report, scanVars, nfoVars>>

missingTrailers_ignoringFound == directoriesScanned - trailersDownloaded

\* printStats, line 28
missingTrailers == directoriesScanned - (trailersDownloaded + trailersFound)

\* lines 162-163: printStats after main() returned
printStats ==
  /\ mainPc = "stats"
  /\ report' = <<[scanned |-> directoriesScanned, downloaded |-> trailersDownloaded,
                  missing |-> missingTrailers]>>
  /\ mainPc' = "done"
  /\ UNCHANGED <<inputs, counters, task, cur, cleanUps, scanVars, nfoVars>>

Next ==
  \/ Main_Single
  \/ Main_Exit
  \/ scanLibrary_Begin
  \/ scanLibrary_Next
  \/ scanLibraryThreaded_Begin
  \/ scanLibraryThreaded_Join
  \/ Main_CleanUp
  \/ printStats
  \/ \E i \in 1..Len(lib) : GT_Classify(i)
  \/ \E i \in 1..Len(lib) : GT_LoadScanned(i)
  \/ \E i \in 1..Len(lib) : GT_StoreScanned(i)
  \/ \E i \in 1..Len(lib) : GT_LoadFound(i)
  \/ \E i \in 1..Len(lib) : GT_StoreFound(i)
  \/ \E i \in 1..Len(lib) : GT_FetchCandidates(i)
  \/ \E i \in 1..Len(lib) : GT_Try(i)
  \/ \E i \in 1..Len(lib) : GT_LoadDownloaded(i)
  \/ \E i \in 1..Len(lib) : GT_StoreDownloaded(i)
  \/ \E i \in 1..Len(lib) : GT_Return(i)

Spec == Init /\ [][Next]_vars

\* ------------------------------------------ NFO(path), step by step
\* the children of the root element a sidecar file is built from
NfoItems ==
  { Tag("premiered", S_2010), Tag("premiered", S_date),
    Tag("release_date", S_2005), Tag("release_date", S_other),
    Tag("year", S_1999), Tag("Year", S_19xx), Tag("productionyear", S_1987),
    Tag("title", S_Heat),
    UniqueId("imdb", S_tt), UniqueId("IMDB", S_ttShort), UniqueId("tmdb", S_num),
    Tag("uniqueid", S_tt),
    Tag("imdbid", S_tt2), Tag("tmdbid", S_7), Tag("id", S_nm) }
NfoFiles ==
  { NfoFile(<<"movie">>, ".nfo", 20, TRUE, items) :
      items \in UNION { [1..n -> NfoItems] : n \in 0..MaxItems } }
    \cup { NfoFile(<<"movie">>, ".nfo", 20, FALSE, <<>>) }

InitNfo ==
  /\ nfoIn \in NfoFiles
  /\ nfoPos = 1
  /\ nfoSt = [exc |-> "", nfo |-> NFOInit(nfoIn.size)]
  /\ nfoOut = <<>>
  /\ mode = "nfo" /\ rootValid = TRUE /\ lib = <<>> /\ ov = NoOverrides
  /\ directoriesScanned = 0 /\ trailersDownloaded = 0 /\ trailersFound = 0
  /\ task = <<>> /\ mainPc = "off" /\ cur = 0 /\ cleanUps = 0 /\ report = <<>>
  /\ InitScanOff

\* NFO.__parse_nfo has left its loop, or never entered it (line 156)
NfoParsed == nfoSt.exc = "" /\ (~nfoIn.wellFormed \/ nfoPos > Len(nfoIn.items))

\* one iteration of the for loop of line 159
NfoParseStep ==
  /\ nfoIn.wellFormed
  /\ nfoPos <= Len(nfoIn.items)
  /\ nfoSt.exc = ""
  /\ nfoSt' = IF ParseItemRaises(nfoIn.items[nfoPos])
              THEN [nfoSt EXCEPT !.exc = "KeyError"]
              ELSE [nfoSt EXCEPT !.nfo = ParseItem(@, nfoIn.items[nfoPos])]
  /\ nfoPos' = nfoPos + 1
  /\ UNCHANGED <<nfoIn, nfoOut, inputs, counters, task, mainPc, cur, cleanUps, report, scanVars>>

\* the properties of the constructed record are read: title, year, imdb,
\* tmdb, is_complete; yearExc / completeExc tell that the read raised TypeError
NfoRead ==
  /\ NfoParsed
  /\ nfoOut = <<>>
  /\ nfoOut' = <<[title |-> NFO_title(nfoSt.nfo),
                  yearExc |-> NFO_yearRaises(nfoSt.nfo),
                  year |-> IF NFO_yearRaises(nfoSt.nfo) THEN None ELSE NFO_year(nfoSt.nfo),
                  imdb |-> NFO_imdb(nfoSt.nfo),
                  tmdb |-> NFO_tmdb(nfoSt.nfo),
                  completeExc |-> is_completeRaises(nfoSt.nfo),
                  complete |-> IF is_completeRaises(nfoSt.nfo) THEN FALSE
                               ELSE is_complete(nfoSt.nfo)]>>
  /\ UNCHANGED <<nfoIn, nfoPos, nfoSt, inputs, counters, task, mainPc, cur, cleanUps, report, scanVars>>

NextNfo == NfoParseStep \/ NfoRead

SpecNfo == InitNfo /\ [][NextNfo]_vars

\* ------------------------------------- MovieFolder.scan, step by step
InitScan ==
  /\ scanIn \in ScanListings
  /\ scanPos = 1
  /\ scanSt = FolderInit
  /\ mode = "scan" /\ rootValid = TRUE /\ lib = <<>> /\ ov = NoOverrides
  /\ directoriesScanned = 0 /\ trailersDownloaded = 0 /\ trailersFound = 0
  /\ task = <<>> /\ mainPc = "off" /\ cur = 0 /\ cleanUps = 0 /\ report = <<>>
  /\ InitNfoOff

\* one iteration of the for loop of line 236; an exception ends the loop
ScanStep ==
  /\ scanPos <= Len(scanIn)
  /\ scanSt.exc = ""
  /\ scanSt' = ScanItem(scanSt, scanIn[scanPos])
  /\ scanPos' = scanPos + 1
  /\ UNCHANGED <<scanIn, inputs, counters, task, mainPc, cur, cleanUps, report, nfoVars>>

NextScan == ScanStep

SpecScan == InitScan /\ [][NextScan]_vars

\* ======================================================== the claims
\* the classification of entry i of lib, as MovieFolder computes it
FolderOf(i) == MovieFolder(ListingOf(lib[i].path))
InFlight(i) == task[i].pc # "idle" /\ ~task[i].returned
AtReturn(i) == task[i].pc \in Terminal /\ ~task[i].returned
SingleThreaded == mode # "threaded"
Counters == <<directoriesScanned, trailersDownloaded, trailersFound>>
Plus(a, b) == <<a[1] + b[1], a[2] + b[2], a[3] + b[3]>>
NoCollaboratorCall(t) ==
  t.tmdbCall = None /\ t.appleCall = None /\ t.linksCalls = 0 /\ t.attempts = <<>>

\* C1: when scanLibraryThreaded has run get_Trailer over the subdirectories and
\* every worker has finished, directoriesScanned is the number of subdirectories
\* in which a movie was found, trailersFound the number of those that already
\* had a trailer, and trailersDownloaded the number of those whose download
\* succeeded: no increment is lost, whatever the interleaving.
C1_NoLostIncrement ==
  (mode = "threaded" /\ rootValid /\ mainPc \in {"cleanup", "stats", "done"}) =>
    /\ directoriesScanned =
         Cardinality({i \in movieDirs : FolderOf(i).exc = "" /\ FolderOf(i).movie # None})
    /\ trailersFound =
         Cardinality({i \in movieDirs : FolderOf(i).exc = "" /\ FolderOf(i).movie # None
                                            /\ FolderOf(i).trailer # None})
    /\ trailersDownloaded = Cardinality({i \in movieDirs : task[i].pc = "Downloaded"})

\* C2: for a folder with a movie and no trailer the downloader is called on
\* the links of the first (Apple) list and then of the second (YouTube) list,
\* each in the order received; every call before the last has failed; the loops
\* end at the first successful call, after which no further link is tried, or
\* when the whole concatenation has failed. trailersDownloaded += 1 is executed
\* exactly once after a success and never otherwise (in a single-threaded run
\* the counter is the one at entry plus 1, respectively the one at entry).
C2_InLoops ==
  \A i \in 1..Len(lib) :
    LET t == task[i]
        expected == t.appleLinks \o t.ytLinks
    IN  /\ t.pc = "try" =>
             /\ t.idx = Len(t.attempts) + 1
             /\ Len(t.attempts) <= Len(expected)
             /\ \A k \in 1..Len(t.attempts) :
                  t.attempts[k].link = expected[k] /\ ~t.attempts[k].ok
             /\ t.incs[2] = 0
        /\ t.pc = "dl_load" =>
             /\ Len(t.attempts) >= 1
             /\ \A k \in 1..Len(t.attempts) : t.attempts[k].ok <=> (k = Len(t.attempts))
             /\ t.incs[2] = 0
        /\ (t.pc = "Downloaded" /\ ~t.returned) =>
             /\ t.incs[2] = 1
             /\ SingleThreaded => trailersDownloaded = t.at0[2] + 1
        /\ (t.pc = "NotFound" /\ ~t.returned) =>
             /\ t.incs[2] = 0
             /\ SingleThreaded => trailersDownloaded = t.at0[2]

C2_LoopStep ==
  \A i \in 1..Len(lib) :
    LET t == task[i]
        u == task'[i]
        expected == t.appleLinks \o t.ytLinks
        k == Len(t.attempts)
    IN  /\ (t.pc = "try" /\ u # t) =>
             IF k = Len(expected)
             THEN u.pc = "NotFound"
             ELSE /\ Len(u.attempts) = k + 1
                  /\ SubSeq(u.attempts, 1, k) = t.attempts
                  /\ u.attempts[k + 1].link = expected[k + 1]
                  /\ u.attempts[k + 1].name = trailerName(t.folder)
                  /\ u.attempts[k + 1].dir = trailerDirectory(t.folder)
                  /\ u.pc = (IF u.attempts[k + 1].ok THEN "dl_load" ELSE "try")
        /\ (t.pc = "dl_load" /\ u # t) => u.pc = "dl_store"
        /\ (t.pc = "dl_store" /\ u # t) => u.pc = "Downloaded"
        /\ (u.pc = "Downloaded" /\ u # t) => t.pc \in {"dl_store", "Downloaded"}
        /\ (u.pc = "NotFound" /\ u # t) => t.pc \in {"try", "NotFound"}

C2_OrderedFallback == []C2_InLoops /\ [][C2_LoopStep]_vars

\* the first list fails entirely, the second link of the second list succeeds
C2_Witness ==
  \E i \in 1..Len(lib) :
    /\ task[i].pc = "dl_load"
    /\ Len(task[i].attempts) = 2
    /\ task[i].attempts[1].link = [src |-> "apple", n |-> 1] /\ ~task[i].attempts[1].ok
    /\ task[i].attempts[2].link = [src |-> "yt", n |-> 1] /\ task[i].attempts[2].ok

\* C3: an invocation without overrides on a folder with a movie, no trailer and
\* no complete sidecar record does not raise: it goes on to the candidate
\* fetch with every metadata field absent and ends, when both lists are empty,
\* in NotFound with directoriesScanned +1 and the other two counters unchanged.
C3_NoSidecarEndsNormally ==
  \A i \in 1..Len(lib) :
    ( /\ AtReturn(i)
      /\ ~UseOverrides(ov)
      /\ task[i].folder.exc = ""
      /\ task[i].folder.movie # None
      /\ task[i].folder.trailer = None
      /\ task[i].folder.nfo = None )
    => /\ task[i].pc \in {"NotFound", "Downloaded"}
       /\ task[i].tmdbCall = <<NoOverrides>>
       /\ task[i].incs[1] = 1

\* C4: when the classification of a folder finds a movie and a trailer, the
\* invocation ends in AlreadyPresent having executed directoriesScanned += 1 and
\* trailersFound += 1 once each and trailersDownloaded += 1 never (in a
\* single-threaded run the counters are those at entry plus <<1, 0, 1>>), and
\* at no point of it is the catalog lookup, the scraper or the downloader called.
C4_AlreadyPresent ==
  \A i \in 1..Len(lib) :
    ( /\ InFlight(i)
      /\ task[i].folder.exc = ""
      /\ task[i].folder.movie # None
      /\ task[i].folder.trailer # None )
    => /\ NoCollaboratorCall(task[i])
       /\ task[i].pc \in {"scanned_load", "scanned_store", "found_load", "found_store", "AlreadyPresent"}
       /\ task[i].pc = "AlreadyPresent" =>
            /\ task[i].incs = <<1, 0, 1>>
            /\ SingleThreaded => Counters = Plus(task[i].at0, <<1, 0, 1>>)

C4_Witness ==
  \E i \in 1..Len(lib) :
    /\ AtReturn(i) /\ task[i].pc = "AlreadyPresent"
    /\ task[i].folder.movie # None /\ task[i].folder.trailer # None
    /\ trailersFound = 1 /\ directoriesScanned = 1

\* C5: an invocation on a path that is not a directory, or on a directory in
\* which the classification finds no movie (a trailer or not), ends without
\* executing any counter increment (in a single-threaded run the three counters
\* are those at entry) and calls no collaborator.
C5_SkippedLeavesCounters ==
  \A i \in 1..Len(lib) :
    ( /\ AtReturn(i)
      /\ \/ ~lib[i].isDir
         \/ (task[i].folder.exc = "" /\ task[i].folder.movie = None) )
    => /\ task[i].pc = (IF lib[i].isDir THEN "SkippedNoMovie" ELSE "SkippedInvalidPath")
       /\ NoCollaboratorCall(task[i])
       /\ task[i].incs = <<0, 0, 0>>
       /\ SingleThreaded => Counters = task[i].at0

C5_Witness ==
  \E i \in 1..Len(lib) :
    /\ AtReturn(i) /\ task[i].pc = "SkippedNoMovie"
    /\ task[i].folder.trailer # None
    /\ task[i].at0 = <<1, 0, 1>>

\* C6: an invocation that got past the trailer test has called the catalog
\* lookup and the trailer scraper; with a numeric id, a textual id or a title
\* and a year from the caller they received the caller's four values, and
\* otherwise (a title alone included) they received the numeric id, textual id,
\* title and year of the folder's kept sidecar record.
C6_OverridesOrSidecar ==
  \A i \in 1..Len(lib) :
    (AtReturn(i) /\ lib[i].isDir /\ task[i].folder.exc = ""
       /\ task[i].folder.movie # None /\ task[i].folder.trailer = None) =>
      LET t == task[i]
          f == t.folder IN
      /\ t.tmdbCall # None
      /\ t.appleCall # None
      /\ IF (Truthy(ov.tmdbid) \/ Truthy(ov.imdbid)) \/ (Truthy(ov.title) /\ Truthy(ov.year))
         THEN /\ t.tmdbCall[1] = [tmdbid |-> ov.tmdbid, imdbid |-> ov.imdbid,
                                  title |-> ov.title, year |-> ov.year]
              /\ t.appleCall[1] = [title |-> ov.title, year |-> ov.year]
         ELSE (f.nfo # None /\ ~NFO_yearRaises(f.nfo[1])) =>
              /\ t.tmdbCall[1] = [tmdbid |-> NFO_tmdb(f.nfo[1]), imdbid |-> NFO_imdb(f.nfo[1]),
                                  title |-> NFO_title(f.nfo[1]), year |-> NFO_year(f.nfo[1])]
              /\ t.appleCall[1] = [title |-> NFO_title(f.nfo[1]), year |-> NFO_year(f.nfo[1])]

\* C7: in a sequential scan of a valid root get_Trailer runs without overrides,
\* for subdirectories only, one at a time and in listing order, and when
\* scanLibrary has ended every subdirectory of the root has had its invocation.
C7_SequentialVisitsAll ==
  (mode = "recursive" /\ rootValid) =>
    /\ ov = NoOverrides
    /\ \A i \in 1..Len(lib) : ~lib[i].isDir => task[i].pc = "idle"
    /\ \A i, j \in 1..Len(lib) : (InFlight(i) /\ InFlight(j)) => i = j
    /\ \A i, j \in movieDirs : (i < j /\ task[j].pc # "idle") => task[i].returned
    /\ mainPc \in {"cleanup", "stats", "done", "crashed"} =>
         \A i \in movieDirs : task[i].returned

\* C8: in a threaded scan of a valid root the submitted invocations are exactly
\* one per subdirectory of the root, and once scanLibraryThreaded has returned
\* (the downloader cleanup, the stats report and the end of the run) every one
\* of them has returned or raised: none is still in flight.
C8_JoinBeforeCleanup ==
  mode = "threaded" =>
    /\ (rootValid /\ mainPc # "start") =>
         \A i \in 1..Len(lib) : (task[i].pc # "idle") <=> lib[i].isDir
    /\ mainPc \in {"cleanup", "stats", "done"} =>
         /\ \A i \in 1..Len(lib) : ~InFlight(i)
         /\ rootValid => \A i \in 1..Len(lib) :
                           lib[i].isDir => (task[i].returned /\ task[i].pc \in Terminal)
    /\ (cleanUps > 0 \/ report # <<>>) => \A i \in 1..Len(lib) : ~InFlight(i)

\* two subdirectories were submitted and both are back when cleanup is due
C8_Witness ==
  /\ mode = "threaded" /\ rootValid
  /\ mainPc = "cleanup"
  /\ Len(lib) >= 2
  /\ \A i \in 1..Len(lib) : lib[i].isDir /\ task[i].returned

\* C9: when the library root is not a directory, scanLibrary and
\* scanLibraryThreaded return at once: no get_Trailer invocation is ever started
\* and the three counters keep their initial value, up to the stats report.
C9_InvalidRootNoInvocation ==
  (mode \in {"recursive", "threaded"} /\ ~rootValid) =>
    /\ \A i \in 1..Len(lib) : task[i] = TaskInit
    /\ Counters = <<0, 0, 0>>
    /\ mainPc \in {"start", "cleanup", "stats", "done"}
    /\ report # <<>> => report[1] = [scanned |-> 0, downloaded |-> 0, missing |-> 0]

\* the run is over, the root was invalid although entries were there to scan
C9_Witness ==
  /\ mode \in {"recursive", "threaded"} /\ ~rootValid
  /\ mainPc = "done"
  /\ \E i \in 1..Len(lib) : lib[i].isDir /\ lib[i].path = "movieOnly"

\* the sidecar files among the first n entries of the listing being scanned
SidecarsSeen(n) ==
  { scanIn[k] : k \in { j \in 1..n : scanIn[j].kind = "file" /\ scanIn[j].ext \in NFO_EXTENSIONS } }
CompleteSidecar(e) ==
  NFO(e).exc = "" /\ ~is_completeRaises(NFO(e).nfo) /\ is_complete(NFO(e).nfo)
ScanFinished == scanPos > Len(scanIn) /\ scanSt.exc = ""

\* C10: at every point of a scan that has not raised, and so when it is
\* finished, the kept record is one of the complete sidecar records seen so
\* far, of maximal file size among them, and no record is kept when none of
\* them is complete: an incomplete record is never kept, whatever its size, and
\* a complete one is never replaced by a smaller complete one.
C10_BestSidecar ==
  scanSt.exc = "" =>
    LET complete == { e \in SidecarsSeen(scanPos - 1) : CompleteSidecar(e) } IN
    IF complete = {}
    THEN scanSt.nfo = None
    ELSE /\ scanSt.nfo # None
         /\ \E e \in complete : scanSt.nfo[1] = NFO(e).nfo
         /\ \A e \in complete : e.size <= scanSt.nfo[1].fileSize

\* a complete record, then a larger incomplete one, then a smaller complete one
C10_Witness ==
  /\ ScanFinished
  /\ Len(scanIn) = 3
  /\ scanSt.nfo # None
  /\ scanIn[1].kind = "file" /\ scanIn[1].ext \in NFO_EXTENSIONS
  /\ CompleteSidecar(scanIn[1])
  /\ scanSt.nfo[1] = NFO(scanIn[1]).nfo
  /\ scanIn[2].kind = "file" /\ scanIn[2].ext \in NFO_EXTENSIONS
  /\ ~CompleteSidecar(scanIn[2]) /\ scanIn[2].size > scanIn[1].size
  /\ scanIn[3].kind = "file" /\ scanIn[3].ext \in NFO_EXTENSIONS
  /\ CompleteSidecar(scanIn[3]) /\ scanIn[3].size < scanIn[1].size

\* the entries of the scanned listing that are probed video files
IsProbedVideo(e) == e.kind = "file" /\ e.ext \in VIDEO_EXTENSIONS /\ e.probeOk
VideosIn(l) == { k \in 1..Len(l) : l[k].kind = "file" /\ l[k].ext \in VIDEO_EXTENSIONS }

\* C11: when the scanned folder holds only files, exactly two of them video
\* files, one probed at 600 s or more and one probed below 600 s, the finished
\* scan has the former as its movie and the latter as its trailer, whichever
\* of the two is listed first.
C11_MovieAndTrailerAnyOrder ==
  (ScanFinished /\ \A k \in 1..Len(scanIn) : scanIn[k].kind = "file") =>
    \A a, b \in VideosIn(scanIn) :
      (/\ VideosIn(scanIn) = {a, b} /\ a # b
       /\ scanIn[a].probeOk /\ scanIn[b].probeOk
       /\ scanIn[a].duration >= 600 /\ scanIn[b].duration < 600) =>
        /\ scanSt.movie # None /\ scanSt.trailer # None
        /\ scanSt.movie[1].stem = scanIn[a].stem /\ scanSt.movie[1].duration = scanIn[a].duration
        /\ scanSt.trailer[1].stem = scanIn[b].stem /\ scanSt.trailer[1].duration = scanIn[b].duration

\* the short file is listed before a file of exactly 600 s
C11_Witness ==
  /\ ScanFinished
  /\ Len(scanIn) = 2
  /\ IsProbedVideo(scanIn[1]) /\ scanIn[1].duration < 600
  /\ IsProbedVideo(scanIn[2]) /\ scanIn[2].duration = 600
  /\ scanSt.movie # None /\ scanSt.movie[1].stem = scanIn[2].stem
  /\ scanSt.trailer # None /\ scanSt.trailer[1].stem = scanIn[1].stem

\* C16: the missing-trailer count that printStats reports is the scanned count
\* minus the sum of the downloaded and the found counts, as they stand when the
\* run is over, after a single call, a sequential scan or a threaded scan.
C16_MissingIsDerived ==
  report # <<>> =>
    /\ report[1].scanned = directoriesScanned
    /\ report[1].downloaded = trailersDownloaded
    /\ report[1].missing = directoriesScanned - (trailersDownloaded + trailersFound)

\* a report after a scan that found one trailer and left one folder without
C16_Witness ==
  /\ report # <<>>
  /\ mode \in {"recursive", "threaded"}
  /\ trailersFound = 1
  /\ report[1].scanned = 2
  /\ report[1].missing = 1

\* C19: in every state of every run the downloaded and found counts together
\* do not exceed the scanned count, and no get_Trailer invocation executes more
\* than one increment of trailersFound and trailersDownloaded together.
C19_FoundPlusDownloadedBounded ==
  /\ trailersDownloaded + trailersFound <= directoriesScanned
  /\ \A i \in 1..Len(lib) : task[i].incs[2] + task[i].incs[3] <= 1

\* what a finished scan must leave behind if it depends on the library and on
\* each folder's outcome alone: the number of invocations that got past the
\* movie test, that found a trailer, that downloaded one
OutcomeTally ==
  <<Cardinality({ i \in movieDirs :
       \/ task[i].pc \in {"AlreadyPresent", "Downloaded", "NotFound"}
       \/ (task[i].pc = "Raised" /\ FolderOf(i).exc = "") }),
    Cardinality({ i \in movieDirs : task[i].pc = "Downloaded" }),
    Cardinality({ i \in movieDirs : task[i].pc = "AlreadyPresent" })>>

\* C20: a sequential and a threaded scan of the same library, with the same
\* outcome for each folder, invoke get_Trailer on the same subdirectories and
\* end with the same three counters, also when an invocation fails part-way:
\* when either scan has ended, every subdirectory of the root and nothing else
\* has been invoked, and the counters are the tally of the folders' outcomes.
C20_ThreadedMatchesSequential ==
  (mode \in {"recursive", "threaded"} /\ rootValid
     /\ mainPc \in {"cleanup", "stats", "done", "crashed"}) =>
    /\ { i \in 1..Len(lib) : task[i].pc # "idle" } = movieDirs
    /\ Counters = OutcomeTally

\* the entry the last step of the scan has processed
LastScanned == scanIn[scanPos - 1]
IsSidecar(e) == e.kind = "file" /\ e.ext \in NFO_EXTENSIONS
\* a sidecar that cannot be parsed, or has a uniqueid entry without a type
IsDamagedSidecar(e) ==
  IsSidecar(e) /\ (~e.wellFormed \/ \E k \in 1..Len(e.items) : ParseItemRaises(e.items[k]))

\* C14: a sidecar that is unreadable, malformed or has an entry without the
\* attribute the parser expects never ends the folder scan: the scan goes on
\* past it, and the record built from it has no title, year, textual id or
\* numeric id.
C14_ParseNeverRaises ==
  (scanPos > 1 /\ IsDamagedSidecar(LastScanned)) =>
    /\ scanSt.exc = ""
    /\ NFO(LastScanned).exc = ""
    /\ LET n == NFO(LastScanned).nfo IN
       /\ NFO_title(n) = None /\ NFO_imdb(n) = None /\ NFO_tmdb(n) = None
       /\ ~NFO_yearRaises(n) /\ NFO_year(n) = None

IsDiscFolder(e) ==
  e.kind = "dir" /\ \/ ("bdmv" \in e.pathHas /\ e.hasIndexBdmv)
                    \/ ("video_ts" \in e.pathHas /\ e.hasVideoTsIfo)

\* C15: right after the scan has processed a subfolder whose path holds "bdmv"
\* or "video_ts" and whose index file (index.bdmv, VIDEO_TS.IFO) is present,
\* the movie is that index file with a duration above 600 s that no probe
\* produced, and a trailer taken from that subfolder is a child whose name holds
\* the trailer marker and whose probed duration is below 600 s.
C15_DiscFolder ==
  (scanPos > 1 /\ scanSt.exc = "" /\ IsDiscFolder(LastScanned)) =>
    LET e == LastScanned IN
    /\ scanSt.movie # None
    /\ scanSt.movie[1].dir = e.name
    /\ scanSt.movie[1].stem \in {<<"index">>, <<"VIDEO_TS">>}
    /\ scanSt.movie[1].duration > MIN_MOVIE_DURATION
    /\ \A k \in 1..Len(scanSt.probed) : scanSt.probed[k] # scanSt.movie[1].stem
    /\ (scanSt.trailer # None /\ scanSt.trailer[1].dir = e.name) =>
         /\ scanSt.trailer[1].duration < MIN_MOVIE_DURATION
         /\ \E k \in 1..Len(e.children) :
              /\ e.children[k].nameHas \cap {"index-trailer", "video_ts-trailer"} # {}
              /\ e.children[k].stem = scanSt.trailer[1].stem

\* the first entry of srcs that is present and passes the validator M
FirstValid(srcs, M(_)) ==
  LET ok == { k \in 1..Len(srcs) : srcs[k] # None /\ M(srcs[k]) } IN
  IF ok = {} THEN None ELSE srcs[CHOOSE k \in ok : \A j \in ok : k <= j]
IsFourDigits(s) == Len(s) = 4 /\ \A k \in 1..4 : s[k] \in Digits
\* a full date in year-month-day form
IsIsoDate(s) ==
  /\ Len(s) = 10 /\ s[5] = "-" /\ s[8] = "-"
  /\ \A k \in {1, 2, 3, 4, 6, 7, 9, 10} : s[k] \in Digits
\* the item the last step of the parse has processed
LastParsed == nfoIn.items[nfoPos - 1]

\* C12: the year read from a parsed record is the first valid 4-digit value
\* among the premiered-derived year, the release-date-derived year, the raw
\* year and the raw productionyear, in this order, and reading it never fails.
C12_YearPriority ==
  nfoOut # <<>> =>
    /\ ~nfoOut[1].yearExc
    /\ nfoOut[1].year =
         FirstValid(<<nfoSt.nfo.premiered, nfoSt.nfo.releasedate,
                      nfoSt.nfo.year, nfoSt.nfo.productionyear>>, IsFourDigits)

\* C13: the imdb and tmdb values read from a parsed record are, each, the
\* first of the unique-id value, the generic-tag candidate and the id field
\* that is present and matches the id pattern, and absent when none does; so
\* a value that is returned always matches its pattern.
C13_IdsPatternValid ==
  nfoOut # <<>> =>
    /\ nfoOut[1].imdb =
         FirstValid(<<nfoSt.nfo.unique_id_imdb, nfoSt.nfo.imdb, nfoSt.nfo.id>>, MatchImdb)
    /\ nfoOut[1].tmdb =
         FirstValid(<<nfoSt.nfo.unique_id_tmdb, nfoSt.nfo.tmdb, nfoSt.nfo.id>>, MatchTmdb)
    /\ nfoOut[1].imdb # None => MatchImdb(nfoOut[1].imdb)
    /\ nfoOut[1].tmdb # None => MatchTmdb(nfoOut[1].tmdb)

\* the unique-id value fails the pattern and the generic candidate is returned,
\* and a numeric candidate that fails its pattern is not returned
C13_Witness ==
  /\ nfoOut # <<>>
  /\ nfoSt.nfo.unique_id_imdb # None /\ ~MatchImdb(nfoSt.nfo.unique_id_imdb)
  /\ nfoOut[1].imdb # None /\ nfoOut[1].imdb = nfoSt.nfo.imdb
  /\ nfoSt.nfo.tmdb # None /\ nfoOut[1].tmdb = None

\* C17: right after a premiered or release_date element has been parsed, the
\* value stored for it is the element's text when that is four digits, the
\* year part of the text when that is a full year-month-day date, and absent
\* for any other text.
C17_ReleaseDateToYear ==
  (nfoPos > 1 /\ nfoSt.exc = "" /\ LowerTag(LastParsed.tag) \in {"premiered", "release_date"}) =>
    LET text == LastParsed.text
        stored == IF LowerTag(LastParsed.tag) = "premiered"
                  THEN nfoSt.nfo.premiered ELSE nfoSt.nfo.releasedate
    IN  stored = IF IsFourDigits(text) THEN text
                 ELSE IF IsIsoDate(text) THEN SubSeq(text, 1, 4)
                 ELSE None

\* the text of the last plain id element of the file, None without one
PlainIdText ==
  LET ids == { k \in 1..Len(nfoIn.items) : LowerTag(nfoIn.items[k].tag) = "id" } IN
  IF ids = {} THEN None ELSE nfoIn.items[CHOOSE k \in ids : \A j \in ids : j <= k].text

\* C18: the imdb value read from a parsed record is the first pattern-valid
\* value among the unique-id entry typed imdb, the textual candidate kept from
\* a generic id tag, and the text of a plain id element; a plain id such as
\* nm0000123 is returned when the two sources before it give nothing.
C18_PlainIdFallback ==
  nfoOut # <<>> =>
    nfoOut[1].imdb =
      FirstValid(<<nfoSt.nfo.unique_id_imdb, nfoSt.nfo.imdb, PlainIdText>>, MatchImdb)

====
